---- MODULE Spec2Model ----
(***************************************************************************)
(* Groundwater DWLR dashboard: the analytics engines (TrendEngine,         *)
(* SeasonalEngine) and the ProcessingEngine orchestrator, as a state       *)
(* machine of calls.  A call takes the caller's reading list and           *)
(* arguments, runs the whole handler and leaves its result (or the fact    *)
(* that it raised) in the state; Return hands control back to the caller.  *)
(* The constructed engine and the DataStore's tables outlive the calls.    *)
(*                                                                         *)
(* Time is counted in ticks, TicksPerDay ticks to a day, so that readings  *)
(* may carry a time of day.  Depths are whole multiples of DepthQuantum    *)
(* metres.  Floating-point numbers are modelled by exact rationals         *)
(* [num, den] in lowest terms with den > 0.                                *)
(***************************************************************************)
EXTENDS Integers, Sequences, FiniteSets, TLC

VARIABLES pc, call, readings, window_days, years, reference_date, args,
          result, raised, engine, db, history

vars == <<pc, call, readings, window_days, years, reference_date, args,
          result, raised, engine, db, history>>

(* what outlives a call: the constructed ProcessingEngine, the database   *)
(* and the record of the save_readings calls made so far                  *)
environment == <<engine, db, history>>

(***************************************************************************)
(* Bounds of the model.                                                    *)
(***************************************************************************)
TicksPerDay == 2
MaxTick == 4
MaxDepth == 2
MaxLen == 3
MaxWindow == 2
MaxMetricsLen == 2
MaxSeasonalLen == 4
MaxYears == 1
MaxBaselineYears == 2
MaxMagnitude == 6
MaxDeviation == 3
MaxLabelDay == 730
MaxSaved == 3

(* seasonal_engine.py lines 69-70: a year back is 365 days back *)
YearShiftDays == 365

(***************************************************************************)
(* Optional values: None is Python's None, Some(v) a present value.        *)
(***************************************************************************)
None == <<>>
Some(v) == <<v>>
Get(o) == o[1]

(***************************************************************************)
(* Exact rational arithmetic standing for float.                           *)
(***************************************************************************)
Abs(n) == IF n < 0 THEN -n ELSE n

RECURSIVE GCD(_, _)
GCD(a, b) == IF b = 0 THEN a ELSE GCD(b, a % b)

Rat(n, d) ==
    LET g == GCD(Abs(n), Abs(d))
        s == IF d < 0 THEN -1 ELSE 1
    IN  [num |-> (s * n) \div g, den |-> (s * d) \div g]

RatOfInt(n) == [num |-> n, den |-> 1]
RatMul(a, b) == Rat(a.num * b.num, a.den * b.den)
RatSub(a, b) == Rat(a.num * b.den - b.num * a.den, a.den * b.den)
RatLess(a, b) == a.num * b.den < b.num * a.den
RatAbs(a) == [num |-> Abs(a.num), den |-> a.den]
Zero == RatOfInt(0)

(* metres per depth unit: a depth d of the model is d * DepthQuantum metres *)
DepthQuantum == Rat(1, 1000)

(***************************************************************************)
(* models/metrics.py: the enumerations.                                    *)
(***************************************************************************)
RECHARGING == "Recharging"
STABLE == "Stable"
DEPLETING == "Depleting"
INSUFFICIENT_DATA == "Insufficient Data"
TrendIndicator == {RECHARGING, STABLE, DEPLETING, INSUFFICIENT_DATA}

LOW == "Low"
MEDIUM == "Medium"
STRONG == "Strong"
TrendStrength == {LOW, MEDIUM, STRONG}

(***************************************************************************)
(* processing/trend_engine.py: module constants, in metres per day.        *)
(***************************************************************************)
RECHARGING_THRESHOLD == Rat(-5, 10000)
DEPLETING_THRESHOLD == Rat(5, 10000)
LOW_STRENGTH_THRESHOLD == Rat(7, 10000)
MEDIUM_STRENGTH_THRESHOLD == Rat(15, 10000)

(***************************************************************************)
(* models/reading.py: a Reading; water_level_m may be None.                *)
(***************************************************************************)
StationIds == {"DWLR-001"}
(* every time of day on day 0, and midnight of the later days *)
Timestamps == {t \in 0..MaxTick : t < TicksPerDay \/ t % TicksPerDay = 0}
Depths == 0..MaxDepth
Reading == [station_id : StationIds, timestamp : Timestamps,
            water_level_m : {None} \cup {Some(d) : d \in Depths}]

SeqsUpTo(S, n) == UNION {[1..k -> S] : k \in 0..n}

(* timedelta(days = d) in ticks, and timedelta.days of a non-negative span *)
timedelta(d) == d * TicksPerDay
days(span) == span \div TicksPerDay

RECURSIVE SumOver(_, _)
SumOver(f, n) == IF n = 0 THEN 0 ELSE f[n] + SumOver(f, n - 1)

MaxTimestamp(rs) ==
    CHOOSE t \in {rs[i].timestamp : i \in 1..Len(rs)} :
        \A i \in 1..Len(rs) : rs[i].timestamp <= t

(* list.sort / sorted with key = timestamp: stable insertion of r into a   *)
(* sorted list, after every element whose key is not greater.              *)
RECURSIVE Insert(_, _)
Insert(r, s) ==
    IF s = <<>> THEN <<r>>
    ELSE IF s[Len(s)].timestamp <= r.timestamp THEN Append(s, r)
    ELSE Append(Insert(r, SubSeq(s, 1, Len(s) - 1)), s[Len(s)])

RECURSIVE SortByTimestamp(_)
SortByTimestamp(s) ==
    IF s = <<>> THEN <<>>
    ELSE Insert(s[Len(s)], SortByTimestamp(SubSeq(s, 1, Len(s) - 1)))

(***************************************************************************)
(* numpy.polyfit(x, y, deg = 1)[0]: the least-squares slope.  polyfit      *)
(* scales each column of the Vandermonde matrix by its norm; when every    *)
(* x is 0 the norm is 0, the column becomes NaN and lstsq raises           *)
(* LinAlgError ("SVD did not converge").  x[1] = 0 always, so equal x      *)
(* means zero x.  None stands for the raised LinAlgError.                  *)
(***************************************************************************)
polyfit(x, y) ==
    LET n   == Len(x)
        Sx  == SumOver(x, n)
        Sy  == SumOver(y, n)
        Sxy == SumOver([i \in 1..n |-> x[i] * y[i]], n)
        Sxx == SumOver([i \in 1..n |-> x[i] * x[i]], n)
        den == n * Sxx - Sx * Sx
    IN  IF den = 0 THEN None
        ELSE Some(RatMul(Rat(n * Sxy - Sx * Sy, den), DepthQuantum))

(* classify_status as it would be if the module's 0.0005 thresholds were   *)
(* applied                                                                 *)
classify_status_thresholds(slope) ==
    IF RatLess(slope, RECHARGING_THRESHOLD) THEN RECHARGING
    ELSE IF RatLess(DEPLETING_THRESHOLD, slope) THEN DEPLETING
    ELSE STABLE

(* lines 94-104: the status of a slope *)
classify_status(slope) ==
    IF RatLess(slope, Zero) THEN RECHARGING
    ELSE IF RatLess(Zero, slope) THEN DEPLETING
    ELSE STABLE

(* classify_strength with the band limits taken inclusive *)
classify_strength_inclusive(slope) ==
    LET abs_slope == RatAbs(slope)
    IN  IF ~RatLess(LOW_STRENGTH_THRESHOLD, abs_slope) THEN LOW
        ELSE IF ~RatLess(MEDIUM_STRENGTH_THRESHOLD, abs_slope) THEN MEDIUM
        ELSE STRONG

(* lines 106-113: the strength band of a slope *)
classify_strength(slope) ==
    LET abs_slope == RatAbs(slope)
    IN  IF RatLess(abs_slope, LOW_STRENGTH_THRESHOLD) THEN LOW
        ELSE IF RatLess(abs_slope, MEDIUM_STRENGTH_THRESHOLD) THEN MEDIUM
        ELSE STRONG

(* filtered_readings with the lower bound of the window excluded *)
filtered_readings_strict(rs, window) ==
    LET latest_date == MaxTimestamp(rs)
        cutoff_date == latest_date - timedelta(window)
    IN  SelectSeq(rs, LAMBDA r : r.timestamp > cutoff_date
                                 /\ r.water_level_m # None)

(* lines 51-57: the readings of the window that carry a depth *)
filtered_readings(rs, window) ==
    LET latest_date == MaxTimestamp(rs)
        cutoff_date == latest_date - timedelta(window)
    IN  SelectSeq(rs, LAMBDA r : r.timestamp >= cutoff_date
                                 /\ r.water_level_m # None)

(* insufficient with a single point accepted *)
insufficient_below_one(filtered) == Len(filtered) < 1

(* line 60: too few points for a regression *)
insufficient(filtered) == Len(filtered) < 2

(* x_values as positional indices *)
x_values_positional(sorted) == [i \in 1..Len(sorted) |-> i - 1]

(* lines 72-76: whole days elapsed since the first of the sorted readings *)
x_values(sorted) ==
    [i \in 1..Len(sorted) |-> days(sorted[i].timestamp - sorted[1].timestamp)]

(* lines 77-80: the depths of the sorted readings *)
y_values(sorted) ==
    [i \in 1..Len(sorted) |-> Get(sorted[i].water_level_m)]

(* all_identical without the zero-variance special case *)
all_identical_never(y) == FALSE

(* line 83: np.all(y_values == y_values[0]) *)
all_identical(y) == \A i \in 1..Len(y) : y[i] = y[1]

(* magnitude without the scaling by the window *)
magnitude_unscaled(slope, window) == slope

(* line 117: magnitude = slope * window_days *)
magnitude(slope, window) == RatMul(slope, RatOfInt(window))

(* lines 94-126: the TrendMetrics built from a slope *)
TrendMetrics(slope, window, points) ==
    [status           |-> classify_status(slope),
     slope            |-> slope,
     strength         |-> classify_strength(slope),
     magnitude        |-> magnitude(slope, window),
     window_days      |-> window,
     data_points_used |-> points]

(***************************************************************************)
(* TrendEngine.calculate_trend: [raised, value] where value is None or     *)
(* Some(TrendMetrics); raised means LinAlgError left the call.             *)
(***************************************************************************)
calculate_trend(rs, window) ==
    IF rs = <<>> THEN [raised |-> FALSE, value |-> None]
    ELSE
      LET filtered == filtered_readings(rs, window)
      IN  IF insufficient(filtered) THEN [raised |-> FALSE, value |-> None]
          ELSE
            LET sorted == SortByTimestamp(filtered)
                x == x_values(sorted)
                y == y_values(sorted)
            IN  IF all_identical(y)
                THEN [raised |-> FALSE,
                      value |-> Some(TrendMetrics(Zero, window, Len(filtered)))]
                ELSE
                  LET coefficients == polyfit(x, y)
                  IN  IF coefficients = None
                      THEN [raised |-> TRUE, value |-> None]
                      ELSE [raised |-> FALSE,
                            value |-> Some(TrendMetrics(Get(coefficients),
                                                        window,
                                                        Len(filtered)))]

(***************************************************************************)
(* The calendar: tick 0 is midnight of 1 January of EpochYear.             *)
(***************************************************************************)
EpochYear == 2019

IsLeap(y) == y % 4 = 0 /\ (y % 100 # 0 \/ y % 400 = 0)
DaysInYear(y) == IF IsLeap(y) THEN 366 ELSE 365
DaysInMonth(y, m) ==
    IF m = 2 THEN (IF IsLeap(y) THEN 29 ELSE 28)
    ELSE IF m \in {4, 6, 9, 11} THEN 30 ELSE 31

RECURSIVE MonthInYear(_, _, _)
MonthInYear(y, m, d) ==
    IF d < DaysInMonth(y, m) THEN m ELSE MonthInYear(y, m + 1, d - DaysInMonth(y, m))

RECURSIVE MonthFrom(_, _)
MonthFrom(y, d) ==
    IF d < DaysInYear(y) THEN MonthInYear(y, 1, d) ELSE MonthFrom(y + 1, d - DaysInYear(y))

(* datetime.month of a timestamp *)
month(t) == MonthFrom(EpochYear, t \div TicksPerDay)

(***************************************************************************)
(* processing/seasonal_engine.py: SeasonalEngine.                          *)
(***************************************************************************)
(* get_season_label with September counted as post-monsoon *)
get_season_label_short_monsoon(date) ==
    IF month(date) \in {3, 4, 5} THEN "Summer / Pre-Monsoon"
    ELSE IF month(date) \in {6, 7, 8} THEN "Monsoon"
    ELSE IF month(date) \in {9, 10, 11} THEN "Post-Monsoon"
    ELSE "Winter"

(* get_season_label *)
get_season_label(date) ==
    IF month(date) \in {3, 4, 5} THEN "Summer / Pre-Monsoon"
    ELSE IF month(date) \in {6, 7, 8, 9} THEN "Monsoon"
    ELSE IF month(date) \in {10, 11} THEN "Post-Monsoon"
    ELSE "Winter"

(* sorted_readings that trusts the caller's order *)
sorted_readings_as_given(rs) == rs

(* line 42: sorted(readings, key = timestamp) *)
sorted_readings(rs) == SortByTimestamp(rs)

(* window_readings with the upper bound of the window excluded *)
window_readings_exclusive(sorted, start, end) ==
    SelectSeq(sorted, LAMBDA r : /\ start <= r.timestamp
                                 /\ r.timestamp < end
                                 /\ r.water_level_m # None)

(* lines 51-54 and 72-75: the readings of [start, end] that carry a depth *)
window_readings(sorted, start, end) ==
    SelectSeq(sorted, LAMBDA r : /\ start <= r.timestamp
                                 /\ r.timestamp <= end
                                 /\ r.water_level_m # None)

(* lines 64 and 78: last minus first, in depth units *)
net_change(window) ==
    Get(window[Len(window)].water_level_m) - Get(window[1].water_level_m)

(* lines 66-79: the net changes of the windows 365 * year days back,      *)
(* year = 1..n, that hold at least 2 readings                              *)
RECURSIVE historical_changes(_, _, _, _)
historical_changes(sorted, start_date, end_date, n) ==
    IF n <= 0 THEN <<>>
    ELSE
      LET earlier == historical_changes(sorted, start_date, end_date, n - 1)
          target_start == start_date - timedelta(n * YearShiftDays)
          target_end == end_date - timedelta(n * YearShiftDays)
          historical_window == window_readings(sorted, target_start, target_end)
      IN  IF Len(historical_window) >= 2
          THEN Append(earlier, net_change(historical_window))
          ELSE earlier

(* resolve_reference_date that always takes the latest reading *)
resolve_reference_date_latest(sorted, ref) == sorted[Len(sorted)].timestamp

(* lines 45-47: the caller's reference date, or the latest timestamp *)
resolve_reference_date(sorted, ref) ==
    IF ref = None THEN sorted[Len(sorted)].timestamp ELSE Get(ref)

(* mean that leaves the sum undivided *)
mean_undivided(changes) ==
    RatMul(RatOfInt(SumOver(changes, Len(changes))), DepthQuantum)

(* line 86: sum(historical_changes) / len(historical_changes), in metres *)
mean(changes) ==
    RatMul(Rat(SumOver(changes, Len(changes)), Len(changes)), DepthQuantum)

(* calculate_seasonal_deviation: None or Some(SeasonalMetrics) *)
calculate_seasonal_deviation(rs, window, nyears, ref) ==
    IF rs = <<>> THEN None
    ELSE
      LET sorted == sorted_readings(rs)
          end_date == resolve_reference_date(sorted, ref)
          start_date == end_date - timedelta(window)
          actual_window == window_readings(sorted, start_date, end_date)
      IN  IF Len(actual_window) < 2 THEN None
          ELSE
            LET actual_change == RatMul(RatOfInt(net_change(actual_window)),
                                        DepthQuantum)
                changes == historical_changes(sorted, start_date, end_date,
                                              nyears)
            IN  IF changes = <<>> THEN None
                ELSE
                  LET historical_baseline == mean(changes)
                  IN  Some([actual_change       |-> actual_change,
                            historical_baseline |-> historical_baseline,
                            deviation           |-> RatSub(actual_change,
                                                     historical_baseline),
                            season_label        |-> get_season_label(end_date),
                            years_used          |-> Len(changes)])

(***************************************************************************)
(* processing_engine.py: the ProcessingEngine orchestrator.                *)
(***************************************************************************)
(* _readings_to_dataframe: one row per reading, sorted by timestamp *)
readings_to_dataframe(rs) ==
    SortByTimestamp([i \in 1..Len(rs) |->
                       [station_id    |-> rs[i].station_id,
                        timestamp     |-> rs[i].timestamp,
                        water_level_m |-> rs[i].water_level_m]])

(* _calculate_seasonal_deviation: (deviation, baseline); both branches of  *)
(* the stub return (None, None).                                           *)
calculate_seasonal_deviation_stub(df, ref) ==
    IF Len(df) < 30 THEN <<None, None>> ELSE <<None, None>>

(* models/metrics.py: RiskLevel *)
RISK_LOW == "Low Risk"
RISK_MODERATE == "Moderate Risk"
RISK_HIGH == "High Risk"
RISK_CRITICAL == "Critical Risk"
RiskLevel == {RISK_LOW, RISK_MODERATE, RISK_HIGH, RISK_CRITICAL}

(* config.py: the weights and thresholds ProcessingEngine is built with *)
risk_trend_weight == Rat(6, 10)
risk_seasonal_weight == Rat(4, 10)
risk_low_threshold == Rat(30, 1)
risk_moderate_threshold == Rat(60, 1)

(* _calculate_risk_index that scores missing inputs as no risk *)
calculate_risk_index_zero(trend_indicator, trend_magnitude, seasonal_deviation) ==
    IF trend_indicator = INSUFFICIENT_DATA THEN <<Some(Zero), Some(RISK_LOW)>>
    ELSE <<None, None>>

(* _calculate_risk_index: (risk_index, risk_level); both branches of the   *)
(* stub return (None, None).                                               *)
calculate_risk_index(trend_indicator, trend_magnitude, seasonal_deviation) ==
    IF trend_indicator = INSUFFICIENT_DATA THEN <<None, None>>
    ELSE <<None, None>>

(* ProcessingEngine.__init__: copies the four settings of the global      *)
(* config and builds a TrendEngine; nothing is checked and nothing raises  *)
construct(config) ==
    [raised |-> FALSE,
     value  |-> Some([trend_window_days         |-> config.trend_window_days,
                      seasonal_comparison_years |->
                          config.seasonal_comparison_years,
                      risk_trend_weight         |-> config.risk_trend_weight,
                      risk_seasonal_weight      |->
                          config.risk_seasonal_weight])]

(* calculate_metrics that hands the trend engine the readings up to the   *)
(* calculation date                                                        *)
trend_engine_input_up_to_date(rs, date) ==
    SelectSeq(rs, LAMBDA r : r.timestamp <= date)

(* line 52: the trend engine is handed the whole list, whatever the date *)
trend_engine_input(rs, date) == rs

(* _create_empty_metrics that reports a stable trend *)
create_empty_metrics_stable(rs, calculation_date, now) ==
    [station_id         |-> IF rs # <<>> THEN rs[1].station_id ELSE "unknown",
     calculation_date   |-> IF calculation_date # None
                            THEN Get(calculation_date) ELSE now,
     trend_indicator    |-> STABLE,
     trend_magnitude    |-> None,
     trend_period_days  |-> None,
     trend_metrics      |-> None,
     seasonal_deviation |-> None,
     seasonal_baseline  |-> None,
     seasonal_metrics   |-> None,
     risk_index         |-> None,
     risk_level         |-> None,
     data_points_used   |-> Some(0),
     calculation_notes  |-> Some("Insufficient data for calculation")]

(* _create_empty_metrics; now is the value datetime.now() returns *)
create_empty_metrics(rs, calculation_date, now) ==
    [station_id         |-> IF rs # <<>> THEN rs[1].station_id ELSE "unknown",
     calculation_date   |-> IF calculation_date # None
                            THEN Get(calculation_date) ELSE now,
     trend_indicator    |-> INSUFFICIENT_DATA,
     trend_magnitude    |-> None,
     trend_period_days  |-> None,
     trend_metrics      |-> None,
     seasonal_deviation |-> None,
     seasonal_baseline  |-> None,
     seasonal_metrics   |-> None,
     risk_index         |-> None,
     risk_level         |-> None,
     data_points_used   |-> Some(0),
     calculation_notes  |-> Some("Insufficient data for calculation")]

(* calculate_metrics with self.trend_window_days = trend_window_days:      *)
(* [raised, value] where value is None (an exception left the call) or     *)
(* Some(Metrics).                                                          *)
calculate_metrics(rs, calculation_date, trend_window_days, now) ==
    IF rs = <<>>
    THEN [raised |-> FALSE,
          value |-> Some(create_empty_metrics(rs, calculation_date, now))]
    ELSE
      LET date == IF calculation_date # None
                  THEN Get(calculation_date) ELSE MaxTimestamp(rs)
          df == readings_to_dataframe(rs)
          trend == calculate_trend(trend_engine_input(rs, date),
                                   trend_window_days)
          trend_indicator == IF trend.value # None
                             THEN Get(trend.value).status
                             ELSE INSUFFICIENT_DATA
          trend_magnitude == IF trend.value # None
                             THEN Some(Get(trend.value).magnitude)
                             ELSE None
          seasonal == calculate_seasonal_deviation_stub(df, date)
          risk == calculate_risk_index(trend_indicator, trend_magnitude,
                                       seasonal[1])
      IN  IF trend.raised THEN [raised |-> TRUE, value |-> None]
          ELSE [raised |-> FALSE,
                value |-> Some(
                  [station_id         |-> rs[1].station_id,
                   calculation_date   |-> date,
                   trend_indicator    |-> trend_indicator,
                   trend_magnitude    |-> trend_magnitude,
                   trend_period_days  |-> Some(trend_window_days),
                   trend_metrics      |-> trend.value,
                   seasonal_deviation |-> seasonal[1],
                   seasonal_baseline  |-> seasonal[2],
                   seasonal_metrics   |-> None,
                   risk_index         |-> risk[1],
                   risk_level         |-> risk[2],
                   data_points_used   |-> Some(Len(rs)),
                   calculation_notes  |-> None])]

(***************************************************************************)
(* data_store.py: DataStore over SQLite.  A table is the set of its rows;  *)
(* a readings row is a reading with its depth, a metrics row the columns   *)
(* station_id, calculation_date and trend_indicator of a Metrics (the      *)
(* other columns are copied alike).                                        *)
(***************************************************************************)
(* UNIQUE(station_id, timestamp) *)
same_key(a, b) == a.station_id = b.station_id /\ a.timestamp = b.timestamp

(* INSERT OR REPLACE in the place of INSERT OR IGNORE *)
insert_or_replace(table, reading) ==
    IF reading.water_level_m = None THEN table
    ELSE {row \in table : ~same_key(row, reading)} \cup {reading}

(* lines 132-142: INSERT OR IGNORE skips the row when it breaks            *)
(* UNIQUE(station_id, timestamp) or water_level_m REAL NOT NULL            *)
insert_or_ignore(table, reading) ==
    IF \/ reading.water_level_m = None
       \/ \E row \in table : same_key(row, reading)
    THEN table
    ELSE table \cup {reading}

(* lines 131-142: the first n inserts of the batch, in order *)
RECURSIVE insert_all(_, _, _)
insert_all(table, batch, n) ==
    IF n = 0 THEN table
    ELSE insert_or_ignore(insert_all(table, batch, n - 1), batch[n])

(* line 39: conn.commit() makes the pending table the stored one *)
commit(stored, pending) == pending

(* rollback that keeps what was inserted before the error *)
rollback_partial(stored, pending) == pending

(* lines 40-42: conn.rollback() drops the pending inserts, then re-raises  *)
rollback(stored, pending) == stored

(* save_readings; fail = 0 when no insert raises, else the index of the    *)
(* insert that raises (a value that cannot be bound, a locked or full      *)
(* database): [raised, table]                                              *)
save_readings(table, batch, fail) ==
    IF fail = 0
    THEN [raised |-> FALSE,
          table  |-> commit(table, insert_all(table, batch, Len(batch)))]
    ELSE [raised |-> TRUE,
          table  |-> rollback(table, insert_all(table, batch, fail - 1))]

(* ORDER BY timestamp *)
RECURSIVE order_by_timestamp(_)
order_by_timestamp(rows) ==
    IF rows = {} THEN <<>>
    ELSE LET first == CHOOSE row \in rows :
                        \A other \in rows : row.timestamp <= other.timestamp
         IN  <<first>> \o order_by_timestamp(rows \ {first})

(* get_readings(station_id): the station's rows ORDER BY timestamp *)
get_readings(table, station_id) ==
    order_by_timestamp({row \in table : row.station_id = station_id})

(* lines 148-166: INSERT OR REPLACE under                                  *)
(* UNIQUE(station_id, calculation_date)                                    *)
save_metrics(table, metrics) ==
    {row \in table : ~(/\ row.station_id = metrics.station_id
                       /\ row.calculation_date = metrics.calculation_date)}
      \cup {metrics}

(* lines 274-277: get_latest_metrics returns None ("TODO: Implement        *)
(* metrics retrieval")                                                     *)
get_latest_metrics(table, station_id) == None

(***************************************************************************)
(* The caller's reading list as an engine call leaves it.                  *)
(***************************************************************************)
(* calculate_trend that sorts the caller's list in place *)
readings_after_calculate_trend_sorted(rs) == SortByTimestamp(rs)

(* trend_engine.py lines 54-68: the filter is a list comprehension and     *)
(* sorted() returns a new list; the list passed in is not written          *)
readings_after_calculate_trend(rs) == rs

(* seasonal_engine.py lines 42-54 and 72-75: sorted() and list             *)
(* comprehensions only                                                     *)
readings_after_calculate_seasonal_deviation(rs) == rs

(* processing_engine.py lines 45-52 and 81-89: max() over a generator, a   *)
(* DataFrame built from new dicts, and the trend engine's call             *)
readings_after_calculate_metrics(rs) == readings_after_calculate_trend(rs)

(***************************************************************************)
(* The calls.                                                              *)
(***************************************************************************)
TrendInputs == SeqsUpTo(Reading, MaxLen)
MetricsInputs == SeqsUpTo(Reading, MaxMetricsLen)
WindowDays == 0..MaxWindow
CalculationDates == {None, Some(0)}
WallClock == {MaxTick + 1, MaxTick + 2}

Init ==
    /\ pc = "idle"
    /\ call = "none"
    /\ readings = <<>>
    /\ window_days = 0
    /\ years = 0
    /\ reference_date = None
    /\ args = None
    /\ result = None
    /\ raised = FALSE
    /\ engine = None
    /\ db = [readings |-> {}, metrics |-> {}]
    /\ history = <<>>

CalculateTrend ==
    /\ pc = "idle"
    /\ \E rs \in TrendInputs, w \in WindowDays :
         LET out == calculate_trend(rs, w)
         IN  /\ readings' = readings_after_calculate_trend(rs)
             /\ args' = Some([readings |-> rs])
             /\ window_days' = w
             /\ result' = out.value
             /\ raised' = out.raised
    /\ call' = "calculate_trend"
    /\ pc' = "returned"
    /\ UNCHANGED <<years, reference_date, environment>>

(* ProcessingEngine().calculate_metrics(readings, calculation_date); the   *)
(* engine was constructed with config.trend_window_days = w, and the wall  *)
(* clock reads now.                                                        *)
CalculateMetrics ==
    /\ pc = "idle"
    /\ \E rs \in MetricsInputs, w \in WindowDays, d \in CalculationDates,
          now \in WallClock :
         LET out == calculate_metrics(rs, d, w, now)
         IN  /\ readings' = readings_after_calculate_metrics(rs)
             /\ args' = Some([readings |-> rs])
             /\ window_days' = w
             /\ reference_date' = d
             /\ result' = out.value
             /\ raised' = out.raised
    /\ call' = "calculate_metrics"
    /\ pc' = "returned"
    /\ UNCHANGED <<years, environment>>

(* the inputs of the seasonal engine: readings at midnight of the first    *)
(* two days of the epoch year and of the days 365 days later, with no      *)
(* depth or a depth of 0 or 1 unit                                         *)
SeasonalTimestamps ==
    {timedelta(y * YearShiftDays + d) : y \in {0, 1}, d \in {0, 1}}
SeasonalReading == [station_id : StationIds, timestamp : SeasonalTimestamps,
                    water_level_m : {None, Some(0), Some(1)}]
SeasonalInputs == SeqsUpTo(SeasonalReading, MaxSeasonalLen)
SeasonalWindows == {1}
SeasonalYears == 0..MaxYears
ReferenceDates ==
    {None} \cup {Some(timedelta(YearShiftDays + d)) : d \in {0, 1}}

(* SeasonalEngine().calculate_seasonal_deviation(readings, window_days,    *)
(* years, reference_date)                                                  *)
CalculateSeasonal ==
    /\ pc = "idle"
    /\ \E rs \in SeasonalInputs, w \in SeasonalWindows, y \in SeasonalYears,
          ref \in ReferenceDates :
         /\ readings' = readings_after_calculate_seasonal_deviation(rs)
         /\ args' = Some([readings |-> rs])
         /\ window_days' = w
         /\ years' = y
         /\ reference_date' = ref
         /\ result' = calculate_seasonal_deviation(rs, w, y, ref)
    /\ raised' = FALSE
    /\ call' = "calculate_seasonal_deviation"
    /\ pc' = "returned"
    /\ UNCHANGED environment

(* a stored series: at most one reading at midnight of each day of         *)
(* SeriesDays (two days of each of two earlier years, three of the         *)
(* current one), in ascending order, with no depth or a depth of           *)
(* SeriesDepths units                                                      *)
SeriesDays ==
    <<0, 1, YearShiftDays, YearShiftDays + 1,
      2 * YearShiftDays, 2 * YearShiftDays + 1, 2 * YearShiftDays + 2>>
SeriesDepths == {0, 2, 3}
SeriesOptions == {<<>>, <<None>>} \cup {<<Some(d)>> : d \in SeriesDepths}

RECURSIVE SeriesOf(_, _)
SeriesOf(g, i) ==
    IF i = 0 THEN <<>>
    ELSE IF g[i] = <<>> THEN SeriesOf(g, i - 1)
    ELSE Append(SeriesOf(g, i - 1),
                [station_id    |-> "DWLR-001",
                 timestamp     |-> timedelta(SeriesDays[i]),
                 water_level_m |-> g[i][1]])

SeriesInputs ==
    {SeriesOf(g, Len(SeriesDays)) : g \in [1..Len(SeriesDays) -> SeriesOptions]}
SeriesYears == 0..MaxBaselineYears
SeriesReferenceDates == {None, Some(timedelta(2 * YearShiftDays + 1))}

(* SeasonalEngine().calculate_seasonal_deviation on a stored series *)
CalculateSeasonalSeries ==
    /\ pc = "idle"
    /\ \E rs \in SeriesInputs, w \in SeasonalWindows, y \in SeriesYears,
          ref \in SeriesReferenceDates :
         /\ readings' = readings_after_calculate_seasonal_deviation(rs)
         /\ args' = Some([readings |-> rs])
         /\ window_days' = w
         /\ years' = y
         /\ reference_date' = ref
         /\ result' = calculate_seasonal_deviation(rs, w, y, ref)
    /\ raised' = FALSE
    /\ call' = "calculate_seasonal_deviation"
    /\ pc' = "returned"
    /\ UNCHANGED environment

(* ProcessingEngine().calculate_metrics on a stored series; the engine     *)
(* was constructed with config.trend_window_days = w and                   *)
(* config.seasonal_comparison_years = y                                    *)
CalculateMetricsSeries ==
    /\ pc = "idle"
    /\ \E rs \in SeriesInputs, w \in SeasonalWindows,
          y \in 1..MaxBaselineYears, d \in SeriesReferenceDates,
          now \in WallClock :
         LET out == calculate_metrics(rs, d, w, now)
         IN  /\ readings' = readings_after_calculate_metrics(rs)
             /\ args' = Some([readings |-> rs])
             /\ window_days' = w
             /\ years' = y
             /\ reference_date' = d
             /\ result' = out.value
             /\ raised' = out.raised
    /\ call' = "calculate_metrics"
    /\ pc' = "returned"
    /\ UNCHANGED environment

(* SeasonalEngine.get_season_label(date) *)
LabelDates == 0..timedelta(MaxLabelDay)

GetSeasonLabel ==
    /\ pc = "idle"
    /\ \E date \in LabelDates :
         /\ reference_date' = Some(date)
         /\ result' = Some(get_season_label(date))
    /\ raised' = FALSE
    /\ call' = "get_season_label"
    /\ pc' = "returned"
    /\ UNCHANGED <<readings, window_days, years, args, environment>>

(* the arguments calculate_metrics hands to the risk scorer: a status with *)
(* a magnitude of its sign, or INSUFFICIENT_DATA with none; magnitudes     *)
(* and deviations in steps of half a metre                                 *)
Magnitudes(status) ==
    IF status = INSUFFICIENT_DATA THEN {None}
    ELSE {Some(Rat(k, 2)) : k \in
            IF status = RECHARGING THEN (0 - MaxMagnitude)..(0 - 1)
            ELSE IF status = DEPLETING THEN 1..MaxMagnitude
            ELSE {0}}
Deviations ==
    {None} \cup {Some(Rat(k, 2)) : k \in (0 - MaxDeviation)..MaxDeviation}

(* ProcessingEngine()._calculate_risk_index(trend_indicator,               *)
(* trend_magnitude, seasonal_deviation)                                    *)
CalculateRiskIndex ==
    /\ pc = "idle"
    /\ \E status \in TrendIndicator, dev \in Deviations :
         \E mag \in Magnitudes(status) :
           /\ args' = Some([trend_indicator    |-> status,
                            trend_magnitude    |-> mag,
                            seasonal_deviation |-> dev])
           /\ result' = Some(calculate_risk_index(status, mag, dev))
    /\ raised' = FALSE
    /\ call' = "calculate_risk_index"
    /\ pc' = "returned"
    /\ UNCHANGED <<readings, window_days, years, reference_date, environment>>

(* config.py: Config() reads the settings from the environment with int()  *)
(* and float(), whatever their sign                                        *)
ConfigWeights == {Rat(0 - 2, 10), Rat(4, 10), Rat(6, 10)}
Configs ==
    [trend_window_days         : (0 - MaxWindow)..MaxWindow,
     seasonal_comparison_years : (0 - 1)..MaxYears,
     risk_trend_weight         : ConfigWeights,
     risk_seasonal_weight      : ConfigWeights]

(* ProcessingEngine(): once per session (app.py initialize_components) *)
Construct ==
    /\ pc = "idle"
    /\ engine = None
    /\ \E config \in Configs :
         LET out == construct(config)
         IN  /\ args' = Some([config |-> config])
             /\ engine' = out.value
             /\ raised' = out.raised
    /\ result' = None
    /\ call' = "__init__"
    /\ pc' = "returned"
    /\ UNCHANGED <<readings, window_days, years, reference_date, db, history>>

(* calculate_metrics(readings, calculation_date) on the constructed engine *)
CalculateMetricsConfigured ==
    /\ pc = "idle"
    /\ engine # None
    /\ \E rs \in MetricsInputs, d \in CalculationDates, now \in WallClock :
         LET out == calculate_metrics(rs, d, engine[1].trend_window_days, now)
         IN  /\ readings' = readings_after_calculate_metrics(rs)
             /\ args' = Some([readings |-> rs])
             /\ reference_date' = d
             /\ result' = out.value
             /\ raised' = out.raised
    /\ window_days' = engine[1].trend_window_days
    /\ years' = engine[1].seasonal_comparison_years
    /\ call' = "calculate_metrics"
    /\ pc' = "returned"
    /\ UNCHANGED environment

(* what the application hands to the store *)
StoreStations == {"DWLR-001", "DWLR-002"}
StoreTimestamps == {0, timedelta(1)}
StoreReading == [station_id : StoreStations, timestamp : StoreTimestamps,
                 water_level_m : {None, Some(0), Some(1)}]
StoreBatches(n) == SeqsUpTo(StoreReading, n)
StoreMetrics == [station_id : StoreStations,
                 calculation_date : StoreTimestamps,
                 trend_indicator : {STABLE, INSUFFICIENT_DATA}]

(* the readings handed to save_readings so far, an empty batch counted as  *)
(* one                                                                     *)
RECURSIVE Saved(_, _)
Saved(h, n) ==
    IF n = 0 THEN 0
    ELSE Saved(h, n - 1)
           + (IF h[n].readings = <<>> THEN 1 ELSE Len(h[n].readings))

(* DataStore().save_readings(batch) *)
SaveReadings ==
    /\ pc = "idle"
    /\ Saved(history, Len(history)) < MaxSaved
    /\ \E batch \in StoreBatches(MaxSaved - Saved(history, Len(history))) :
         /\ \E fail \in 0..Len(batch) :
              LET out == save_readings(db.readings, batch, fail)
              IN  /\ db' = [db EXCEPT !.readings = out.table]
                  /\ raised' = out.raised
                  /\ history' = Append(history,
                                       [readings |-> batch,
                                        raised   |-> out.raised,
                                        before   |-> db.readings])
         /\ args' = Some([readings |-> batch])
    /\ result' = None
    /\ call' = "save_readings"
    /\ pc' = "returned"
    /\ UNCHANGED <<readings, window_days, years, reference_date, engine>>

(* DataStore().get_readings(station_id) *)
GetReadings ==
    /\ pc = "idle"
    /\ \E station_id \in StoreStations :
         /\ args' = Some([station_id |-> station_id])
         /\ result' = Some(get_readings(db.readings, station_id))
    /\ raised' = FALSE
    /\ call' = "get_readings"
    /\ pc' = "returned"
    /\ UNCHANGED <<readings, window_days, years, reference_date, environment>>

(* DataStore().save_metrics(metrics) *)
SaveMetrics ==
    /\ pc = "idle"
    /\ \E metrics \in StoreMetrics :
         /\ args' = Some([metrics |-> metrics])
         /\ db' = [db EXCEPT !.metrics = save_metrics(db.metrics, metrics)]
    /\ result' = None
    /\ raised' = FALSE
    /\ call' = "save_metrics"
    /\ pc' = "returned"
    /\ UNCHANGED <<readings, window_days, years, reference_date, engine,
                   history>>

(* DataStore().get_latest_metrics(station_id) *)
GetLatestMetrics ==
    /\ pc = "idle"
    /\ \E station_id \in StoreStations :
         /\ args' = Some([station_id |-> station_id])
         /\ result' = get_latest_metrics(db.metrics, station_id)
    /\ raised' = FALSE
    /\ call' = "get_latest_metrics"
    /\ pc' = "returned"
    /\ UNCHANGED <<readings, window_days, years, reference_date, environment>>

Return ==
    /\ pc = "returned"
    /\ pc' = "idle"
    /\ call' = "none"
    /\ readings' = <<>>
    /\ window_days' = 0
    /\ years' = 0
    /\ reference_date' = None
    /\ args' = None
    /\ result' = None
    /\ raised' = FALSE
    /\ UNCHANGED environment

Next == CalculateTrend \/ CalculateMetrics \/ CalculateRiskIndex \/ Return

Spec == Init /\ [][Next]_vars

(* the seasonal engine on its own *)
NextSeasonal == CalculateSeasonal \/ Return

SpecSeasonal == Init /\ [][NextSeasonal]_vars

(* the seasonal engine on stored series *)
NextSeries == CalculateSeasonalSeries \/ GetSeasonLabel \/ Return

SpecSeries == Init /\ [][NextSeries]_vars

(* the readings table of the store *)
NextReadingStore == SaveReadings \/ GetReadings \/ Return

SpecReadingStore == Init /\ [][NextReadingStore]_vars

(* the metrics table of the store *)
NextMetricsStore == SaveMetrics \/ GetLatestMetrics \/ Return

SpecMetricsStore == Init /\ [][NextMetricsStore]_vars

(* the three engines on unordered lists *)
NextEngines ==
    CalculateTrend \/ CalculateMetrics \/ CalculateSeasonal \/ Return

SpecEngines == Init /\ [][NextEngines]_vars

(* the orchestrator under the configuration it was constructed with *)
NextConfig == Construct \/ CalculateMetricsConfigured \/ Return

SpecConfig == Init /\ [][NextConfig]_vars

(* the orchestrator on stored series *)
NextAnalysis == CalculateMetricsSeries \/ Return

SpecAnalysis == Init /\ [][NextAnalysis]_vars

(***************************************************************************)
(* Vocabulary of the properties, stated over index sets of the caller's    *)
(* list rather than over the engine's filtered and sorted copies.          *)
(***************************************************************************)
Returned(name) == pc = "returned" /\ call = name

TrendCall == Returned("calculate_trend") \/ Returned("calculate_metrics")

(* the readings of rs in [latest - window, latest] with a depth *)
Survivors(rs, window) ==
    IF rs = <<>> THEN {}
    ELSE {i \in 1..Len(rs) :
            /\ rs[i].timestamp >= MaxTimestamp(rs) - window * TicksPerDay
            /\ rs[i].timestamp <= MaxTimestamp(rs)
            /\ rs[i].water_level_m # None}

RECURSIVE SetSum(_, _)
SetSum(S, f) ==
    IF S = {} THEN 0
    ELSE LET i == CHOOSE j \in S : TRUE IN f[i] + SetSum(S \ {i}, f)

(* least-squares slope over the survivors, in metres per day; defined     *)
(* when the day offsets are not all equal                                  *)
SurvivorOffsets(rs, S) ==
    LET t0 == CHOOSE t \in {rs[i].timestamp : i \in S} :
                \A i \in S : t <= rs[i].timestamp
    IN  [i \in 1..Len(rs) |-> IF i \in S
                              THEN (rs[i].timestamp - t0) \div TicksPerDay
                              ELSE 0]

SurvivorDepths(rs, S) ==
    [i \in 1..Len(rs) |-> IF i \in S THEN rs[i].water_level_m[1] ELSE 0]

SurvivorDen(rs, S) ==
    LET x == SurvivorOffsets(rs, S)
    IN  Cardinality(S) * SetSum(S, [i \in 1..Len(rs) |-> x[i] * x[i]])
        - SetSum(S, x) * SetSum(S, x)

SurvivorNum(rs, S) ==
    LET x == SurvivorOffsets(rs, S)
        y == SurvivorDepths(rs, S)
    IN  Cardinality(S) * SetSum(S, [i \in 1..Len(rs) |-> x[i] * y[i]])
        - SetSum(S, x) * SetSum(S, y)

(* a rational r (metres per day) equals num/den depth units per day *)
IsSlope(r, num, den) == r.num * den * 1000 = num * r.den

(* the TrendMetrics of the last call, whichever entry point made it *)
HasTrend ==
    /\ TrendCall
    /\ result # None
    /\ (call = "calculate_metrics" => result[1].trend_metrics # None)

Trend ==
    IF call = "calculate_metrics" THEN result[1].trend_metrics[1]
    ELSE result[1]

SameDepth(rs, S) ==
    \A i \in S, j \in S : rs[i].water_level_m = rs[j].water_level_m

(***************************************************************************)
(* C1: a series with fewer than 2 readings in [latest - window_days,       *)
(* latest] that carry a depth (the empty series included) makes the trend  *)
(* computation return its insufficient-data value and raise nothing: the   *)
(* engine returns None, and the orchestrator reports trend_indicator       *)
(* INSUFFICIENT_DATA with no trend_metrics.                                *)
(***************************************************************************)
C1_InsufficientDataIsNormal ==
    (TrendCall /\ Cardinality(Survivors(readings, window_days)) < 2) =>
        /\ ~raised
        /\ (call = "calculate_trend" => result = None)
        /\ (call = "calculate_metrics" =>
              /\ result # None
              /\ result[1].trend_indicator = INSUFFICIENT_DATA
              /\ result[1].trend_metrics = None
              /\ result[1].trend_magnitude = None)

(* two readings with a depth given, further apart than the window: the    *)
(* orchestrator reports INSUFFICIENT_DATA                                  *)
C1_Witness ==
    /\ Returned("calculate_metrics")
    /\ Len(readings) = 2
    /\ Cardinality(Survivors(readings, window_days)) = 1
    /\ \A i \in 1..2 : readings[i].water_level_m # None
    /\ \E i \in 1..2 : readings[i].timestamp
                         < MaxTimestamp(readings) - window_days * TicksPerDay
    /\ ~raised
    /\ result[1].trend_indicator = INSUFFICIENT_DATA

(***************************************************************************)
(* C2: the trend computation raises nothing for any series with at least   *)
(* 2 readings in the window that carry a depth, also when all of them lie  *)
(* within the same whole day of the first while their depths differ.       *)
(***************************************************************************)
C2_NeverRaises ==
    (Returned("calculate_trend")
       /\ Cardinality(Survivors(readings, window_days)) >= 2) => ~raised

(***************************************************************************)
(* C3 as stated: every series of length >= 2 whose readings all have the   *)
(* same depth yields slope 0 and status Stable.                            *)
(***************************************************************************)
C3_Original ==
    (Returned("calculate_trend")
       /\ Len(readings) >= 2
       /\ \A i \in 1..Len(readings) : readings[i].water_level_m # None
       /\ SameDepth(readings, 1..Len(readings))) =>
        /\ result # None
        /\ result[1].slope = Zero
        /\ result[1].status = STABLE

(***************************************************************************)
(* C3 amended: every series whose readings all have the same depth and of  *)
(* which at least 2 lie in [latest - window_days, latest] yields slope     *)
(* exactly 0 and status Stable, without raising.                           *)
(***************************************************************************)
C3_IdenticalDepthsStable ==
    (Returned("calculate_trend")
       /\ Cardinality(Survivors(readings, window_days)) >= 2
       /\ \A i \in 1..Len(readings) : readings[i].water_level_m # None
       /\ SameDepth(readings, 1..Len(readings))) =>
        /\ ~raised
        /\ result # None
        /\ result[1].slope = Zero
        /\ result[1].status = STABLE

(* two readings of equal depth at the same timestamp, so that every day    *)
(* offset is 0 as well: slope 0, Stable                                    *)
C3_Witness ==
    /\ Returned("calculate_trend")
    /\ Len(readings) = 2
    /\ readings[1].timestamp = readings[2].timestamp
    /\ readings[1].water_level_m = Some(2)
    /\ readings[2].water_level_m = Some(2)
    /\ result # None
    /\ result[1].slope = Zero
    /\ result[1].status = STABLE

(***************************************************************************)
(* C4 as stated: when the depths are an exact linear function of elapsed   *)
(* time with daily increase k and the window keeps readings of at least 2  *)
(* distinct days, a completed fit has slope k.                             *)
(***************************************************************************)
Linear(rs, k) ==
    /\ \A i \in 1..Len(rs) : rs[i].water_level_m # None
    /\ \A i \in 1..Len(rs), j \in 1..Len(rs) :
         (rs[i].water_level_m[1] - rs[j].water_level_m[1]) * TicksPerDay
           = k * (rs[i].timestamp - rs[j].timestamp)

DistinctDays(rs, S) ==
    Cardinality({rs[i].timestamp \div TicksPerDay : i \in S}) >= 2

DailyIncreases == (0 - MaxDepth * TicksPerDay)..(MaxDepth * TicksPerDay)

C4_Original ==
    \A k \in DailyIncreases :
      (Returned("calculate_trend")
         /\ Linear(readings, k)
         /\ DistinctDays(readings, Survivors(readings, window_days))
         /\ ~raised) =>
          /\ result # None
          /\ IsSlope(result[1].slope, k, 1)

(***************************************************************************)
(* C4 amended: when, in addition, all readings are taken at the same time  *)
(* of day (their timestamps are whole days apart), the fit completes and   *)
(* its slope is k for every subset that keeps at least 2 distinct days in  *)
(* the window: day offsets, not positions, are the x values.               *)
(***************************************************************************)
SameTimeOfDay(rs) ==
    \A i \in 1..Len(rs), j \in 1..Len(rs) :
        rs[i].timestamp % TicksPerDay = rs[j].timestamp % TicksPerDay

C4_LinearSlopeOnDailyGrid ==
    \A k \in DailyIncreases :
      (Returned("calculate_trend")
         /\ Linear(readings, k)
         /\ SameTimeOfDay(readings)
         /\ DistinctDays(readings, Survivors(readings, window_days))) =>
          /\ ~raised
          /\ result # None
          /\ IsSlope(result[1].slope, k, 1)

(* days 0 and 2 only, given latest first: the gap of 2 days is between     *)
(* neighbours, depth rises 1 unit a day, and the slope is 1 unit a day     *)
C4_Witness ==
    /\ Returned("calculate_trend")
    /\ Len(readings) = 2
    /\ readings[1].timestamp = 2 * TicksPerDay
    /\ readings[2].timestamp = 0
    /\ readings[1].water_level_m = Some(2)
    /\ readings[2].water_level_m = Some(0)
    /\ window_days = 2
    /\ result # None
    /\ IsSlope(result[1].slope, 1, 1)

C6_StrengthBands ==
    HasTrend =>
        LET n == Abs(Trend.slope.num) * 10000
            d == Trend.slope.den
        IN  /\ (n < 7 * d => Trend.strength = LOW)
            /\ (n >= 7 * d /\ n < 15 * d => Trend.strength = MEDIUM)
            /\ (n >= 15 * d => Trend.strength = STRONG)

(* daily readings rising 1 unit = 0.001 m a day: Depleting, Medium *)
C6_Witness ==
    /\ Returned("calculate_trend")
    /\ Len(readings) = 3
    /\ \A i \in 1..3 : /\ readings[i].timestamp = (i - 1) * TicksPerDay
                       /\ readings[i].water_level_m = Some(i - 1)
    /\ window_days = 2
    /\ result # None
    /\ result[1].slope = Rat(1, 1000)
    /\ result[1].status = DEPLETING
    /\ result[1].strength = MEDIUM

(***************************************************************************)
(* C7: every TrendMetrics produced has magnitude = slope * window_days,    *)
(* window_days being the window passed to the computation.                 *)
(***************************************************************************)
C7_MagnitudeIsSlopeTimesWindow ==
    HasTrend =>
        /\ Trend.window_days = window_days
        /\ Trend.magnitude.num * Trend.slope.den
             = Trend.slope.num * window_days * Trend.magnitude.den

(* a non-zero slope over a window of 2 days, fitted on 3 points *)
C7_Witness ==
    /\ Returned("calculate_trend")
    /\ window_days = 2
    /\ result # None
    /\ result[1].data_points_used = 3
    /\ result[1].slope.num # 0
    /\ result[1].magnitude = RatMul(result[1].slope, RatOfInt(2))

(***************************************************************************)
(* C8: the fit uses exactly the readings with timestamp in                 *)
(* [latest - window_days, latest] and a depth: data_points_used is their   *)
(* number and the slope is the least-squares slope over them; a reading    *)
(* without a depth takes no part.                                          *)
(***************************************************************************)
C8_FitUsesExactlyTheSurvivors ==
    HasTrend =>
        LET S == Survivors(readings, window_days)
        IN  /\ Trend.data_points_used = Cardinality(S)
            /\ Cardinality(S) >= 2
            /\ IF SameDepth(readings, S) THEN Trend.slope = Zero
               ELSE /\ SurvivorDen(readings, S) # 0
                    /\ IsSlope(Trend.slope, SurvivorNum(readings, S),
                               SurvivorDen(readings, S))

(* of 3 readings one lies exactly on the lower bound of the window, one    *)
(* is the latest and one has no depth: the two with a depth are fitted     *)
C8_Witness ==
    /\ Returned("calculate_trend")
    /\ Len(readings) = 3
    /\ window_days = 1
    /\ \E i \in 1..3 : readings[i].water_level_m = None
    /\ \E i \in 1..3 :
         /\ readings[i].water_level_m # None
         /\ readings[i].timestamp = MaxTimestamp(readings) - TicksPerDay
    /\ result # None
    /\ result[1].data_points_used = 2
    /\ result[1].slope.num # 0

(***************************************************************************)
(* Vocabulary of the seasonal properties.                                  *)
(***************************************************************************)
IndexPermutations(n) ==
    {f \in [1..n -> 1..n] : \A i \in 1..n, j \in 1..n : f[i] = f[j] => i = j}

Permuted(rs, f) == [i \in 1..Len(rs) |-> rs[f[i]]]

Reversed(rs) == [i \in 1..Len(rs) |-> rs[Len(rs) + 1 - i]]

DistinctTimestamps(rs) ==
    \A i \in 1..Len(rs), j \in 1..Len(rs) :
        rs[i].timestamp = rs[j].timestamp => i = j

(* the reference date in effect: the one supplied, else the latest reading *)
EffectiveReference(rs, ref) ==
    IF ref # None THEN ref[1] ELSE MaxTimestamp(rs)

(* the readings of rs in the window that ends k years before the          *)
(* reference date; with a depth only, when withDepth                       *)
InShiftedWindow(rs, window, ref, k, withDepth) ==
    IF rs = <<>> THEN {}
    ELSE LET end == EffectiveReference(rs, ref)
                      - k * YearShiftDays * TicksPerDay
         IN  {i \in 1..Len(rs) :
                /\ end - window * TicksPerDay <= rs[i].timestamp
                /\ rs[i].timestamp <= end
                /\ (withDepth => rs[i].water_level_m # None)}

(***************************************************************************)
(* C9 as stated: for every series and reference date, every permutation of *)
(* the readings gives the same SeasonalMetrics, or None in both cases.     *)
(***************************************************************************)
C9_Original ==
    Returned("calculate_seasonal_deviation") =>
        \A f \in IndexPermutations(Len(readings)) :
            calculate_seasonal_deviation(Permuted(readings, f), window_days,
                                         years, reference_date) = result

(***************************************************************************)
(* C9 amended: for every series whose readings have pairwise distinct      *)
(* timestamps and every reference date, every permutation of the readings  *)
(* (the reverse chronological order among them) gives the same             *)
(* SeasonalMetrics, or None in both cases.                                 *)
(***************************************************************************)
C9_OrderInsensitive ==
    (Returned("calculate_seasonal_deviation")
       /\ DistinctTimestamps(readings)) =>
        \A f \in IndexPermutations(Len(readings)) :
            calculate_seasonal_deviation(Permuted(readings, f), window_days,
                                         years, reference_date) = result

(* four readings given in reverse chronological order, with a result whose *)
(* actual change is not 0, so that taking first and last in the given      *)
(* order would change its sign                                             *)
C9_Witness ==
    /\ Returned("calculate_seasonal_deviation")
    /\ Len(readings) = 4
    /\ \A i \in 1..3 : readings[i].timestamp > readings[i + 1].timestamp
    /\ result # None
    /\ result[1].actual_change.num # 0
    /\ calculate_seasonal_deviation(Reversed(readings), window_days, years,
                                    reference_date) = result

(***************************************************************************)
(* C10 as stated: the seasonal computation returns None exactly when the   *)
(* current window holds fewer than 2 readings with a depth or none of the  *)
(* years 1..years has a shifted window with at least 2 readings.           *)
(***************************************************************************)
C10_Original ==
    Returned("calculate_seasonal_deviation") =>
        (result = None <=>
           \/ Cardinality(InShiftedWindow(readings, window_days,
                                          reference_date, 0, TRUE)) < 2
           \/ \A k \in 1..years :
                Cardinality(InShiftedWindow(readings, window_days,
                                            reference_date, k, FALSE)) < 2)

(***************************************************************************)
(* C10 amended: the seasonal computation returns None exactly when the     *)
(* current window holds fewer than 2 readings with a depth or none of the  *)
(* years 1..years has a shifted window with at least 2 readings that carry *)
(* a depth; in every other case it returns a SeasonalMetrics; it never     *)
(* raises.                                                                 *)
(***************************************************************************)
C10_NoneExactlyWhenInsufficient ==
    Returned("calculate_seasonal_deviation") =>
        /\ ~raised
        /\ (result = None <=>
              \/ Cardinality(InShiftedWindow(readings, window_days,
                                             reference_date, 0, TRUE)) < 2
              \/ \A k \in 1..years :
                   Cardinality(InShiftedWindow(readings, window_days,
                                               reference_date, k, TRUE)) < 2)

(* the current window is full, the window a year back holds 2 readings of  *)
(* which one has no depth: None                                            *)
C10_Witness ==
    /\ Returned("calculate_seasonal_deviation")
    /\ years >= 1
    /\ Cardinality(InShiftedWindow(readings, window_days, reference_date,
                                   0, TRUE)) = 2
    /\ Cardinality(InShiftedWindow(readings, window_days, reference_date,
                                   1, FALSE)) = 2
    /\ Cardinality(InShiftedWindow(readings, window_days, reference_date,
                                   1, TRUE)) = 1
    /\ result = None

(***************************************************************************)
(* Vocabulary of the seasonal results.                                     *)
(***************************************************************************)
SeasonalCall == Returned("calculate_seasonal_deviation")

(* the chronologically first reading of the index set S: the earliest      *)
(* timestamp, and of equal timestamps the one given first                  *)
FirstOf(rs, S) ==
    CHOOSE i \in S : \A j \in S :
        \/ rs[i].timestamp < rs[j].timestamp
        \/ (rs[i].timestamp = rs[j].timestamp /\ i <= j)

(* the chronologically last reading of S: the latest timestamp, and of     *)
(* equal timestamps the one given last                                     *)
LastOf(rs, S) ==
    CHOOSE i \in S : \A j \in S :
        \/ rs[i].timestamp > rs[j].timestamp
        \/ (rs[i].timestamp = rs[j].timestamp /\ i >= j)

(* depth of the last minus depth of the first reading of S, in units *)
NetChangeOf(rs, S) ==
    rs[LastOf(rs, S)].water_level_m[1] - rs[FirstOf(rs, S)].water_level_m[1]

(* the rational r is units depth units, in metres *)
IsDepth(r, units) == r.num * 1000 = units * r.den

(* the readings of rs not later than the date t *)
UpTo(rs, t) == SelectSeq(rs, LAMBDA r : r.timestamp <= t)

(***************************************************************************)
(* C11: the actual change of every seasonal result is the depth of the     *)
(* chronologically last minus the depth of the chronologically first       *)
(* reading with a depth in [reference - window_days, reference], both ends *)
(* included, where reference is the supplied date or else the latest       *)
(* timestamp of the series; and dropping the readings later than a         *)
(* supplied reference date leaves the outcome of the call unchanged.       *)
(***************************************************************************)
C11_ActualChangeOfCurrentWindow ==
    SeasonalCall =>
      /\ result # None =>
           LET current == InShiftedWindow(readings, window_days,
                                          reference_date, 0, TRUE)
           IN  /\ Cardinality(current) >= 2
               /\ IsDepth(result[1].actual_change,
                          NetChangeOf(readings, current))
      /\ reference_date # None =>
           calculate_seasonal_deviation(
               UpTo(readings, reference_date[1]), window_days, years,
               reference_date) = result

(* a reference date is supplied, a reading with a depth lies after it, and *)
(* the result's actual change is not what the window ending at that later  *)
(* reading would give                                                      *)
C11_Witness ==
    /\ SeasonalCall
    /\ reference_date # None
    /\ result # None
    /\ \E i \in 1..Len(readings) :
         /\ readings[i].timestamp > reference_date[1]
         /\ readings[i].water_level_m # None
    /\ Cardinality(InShiftedWindow(readings, window_days, None, 0, TRUE)) = 2
    /\ ~IsDepth(result[1].actual_change,
                NetChangeOf(readings,
                            InShiftedWindow(readings, window_days, None,
                                            0, TRUE)))

(* the years k of 1..n whose window, shifted back by 365 * k days, holds   *)
(* at least 2 readings; readings with a depth only, when withDepth         *)
QualifyingYears(rs, window, n, ref, withDepth) ==
    {k \in 1..n :
       Cardinality(InShiftedWindow(rs, window, ref, k, withDepth)) >= 2}

(* the sum, over the years of Q, of the net change between the first and   *)
(* the last reading with a depth of the shifted window, in depth units     *)
SumOfChanges(rs, window, ref, Q) ==
    SetSum(Q, [k \in Q |->
                 NetChangeOf(rs, InShiftedWindow(rs, window, ref, k, TRUE))])

(* the rational r is total / count depth units, in metres *)
IsMean(r, total, count) == r.num * count * 1000 = total * r.den

(* the rational d is a - b *)
IsDifference(d, a, b) ==
    d.num * a.den * b.den = (a.num * b.den - b.num * a.den) * d.den

(***************************************************************************)
(* C12 as stated: in every seasonal result the baseline is the mean of the *)
(* net changes of exactly those windows shifted back by 365 * k days,      *)
(* k in 1..years, that hold at least 2 readings, years_used is the number  *)
(* of those windows and lies in 1..years, and the deviation is the actual  *)
(* change minus the baseline.                                              *)
(***************************************************************************)
C12_Original ==
    (SeasonalCall /\ result # None) =>
        LET Q == QualifyingYears(readings, window_days, years,
                                 reference_date, FALSE)
        IN  /\ result[1].years_used = Cardinality(Q)
            /\ 1 <= result[1].years_used
            /\ result[1].years_used <= years
            /\ Q = QualifyingYears(readings, window_days, years,
                                   reference_date, TRUE)
            /\ IsMean(result[1].historical_baseline,
                      SumOfChanges(readings, window_days, reference_date, Q),
                      Cardinality(Q))
            /\ IsDifference(result[1].deviation, result[1].actual_change,
                            result[1].historical_baseline)

(***************************************************************************)
(* C12 amended: in every seasonal result the baseline is the mean of the   *)
(* net changes (last minus first reading with a depth) of exactly those    *)
(* windows shifted back by 365 * k days, k in 1..years, that hold at least *)
(* 2 readings with a depth, years_used is the number of those windows and  *)
(* lies in 1..years, and the deviation is the actual change minus the      *)
(* baseline.                                                               *)
(***************************************************************************)
C12_BaselineIsMeanOfQualifyingYears ==
    (SeasonalCall /\ result # None) =>
        LET Q == QualifyingYears(readings, window_days, years,
                                 reference_date, TRUE)
        IN  /\ result[1].years_used = Cardinality(Q)
            /\ 1 <= result[1].years_used
            /\ result[1].years_used <= years
            /\ IsMean(result[1].historical_baseline,
                      SumOfChanges(readings, window_days, reference_date, Q),
                      Cardinality(Q))
            /\ IsDifference(result[1].deviation, result[1].actual_change,
                            result[1].historical_baseline)

(* two earlier years qualify with net changes of +2 and +3 units, so the   *)
(* baseline is the mean 0.0025 m; the actual change is -3 units and the    *)
(* deviation -0.0055 m                                                     *)
C12_Witness ==
    /\ SeasonalCall
    /\ years = 2
    /\ result # None
    /\ result[1].years_used = 2
    /\ result[1].actual_change = Rat(0 - 3, 1000)
    /\ result[1].historical_baseline = Rat(5, 2000)
    /\ result[1].deviation = Rat(0 - 11, 2000)

(* the label the season of a calendar month carries *)
LabelOfMonth(m) ==
    IF m \in 3..5 THEN "Summer / Pre-Monsoon"
    ELSE IF m \in 6..9 THEN "Monsoon"
    ELSE IF m \in 10..11 THEN "Post-Monsoon"
    ELSE "Winter"

(* the label of C13 as it is written there *)
LabelOfMonthAsStated(m) ==
    IF m \in 3..5 THEN "Summer/Pre-Monsoon"
    ELSE IF m \in 6..9 THEN "Monsoon"
    ELSE IF m \in 10..11 THEN "Post-Monsoon"
    ELSE "Winter"

(***************************************************************************)
(* C13 as stated: the season label of a date, and the season_label of a    *)
(* seasonal result, is "Summer/Pre-Monsoon" when the month of the          *)
(* (reference) date is 3-5, "Monsoon" for 6-9, "Post-Monsoon" for 10-11    *)
(* and "Winter" for 12, 1 and 2.                                           *)
(***************************************************************************)
C13_Original ==
    /\ Returned("get_season_label") =>
         result[1] = LabelOfMonthAsStated(month(reference_date[1]))
    /\ (SeasonalCall /\ result # None) =>
         result[1].season_label =
           LabelOfMonthAsStated(
             month(EffectiveReference(readings, reference_date)))

(***************************************************************************)
(* C13 amended: the season label of a date, and the season_label of a      *)
(* seasonal result, depends on the calendar month of the (reference) date  *)
(* only and is "Summer / Pre-Monsoon" for the months 3-5, "Monsoon" for    *)
(* 6-9, "Post-Monsoon" for 10-11 and "Winter" for 12, 1 and 2.             *)
(***************************************************************************)
C13_LabelOfReferenceMonth ==
    /\ Returned("get_season_label") =>
         result[1] = LabelOfMonth(month(reference_date[1]))
    /\ (SeasonalCall /\ result # None) =>
         result[1].season_label =
           LabelOfMonth(month(EffectiveReference(readings, reference_date)))

(* 30 September of the leap year after the epoch year, 273 days into it:   *)
(* the last day of the monsoon label                                       *)
C13_Witness ==
    /\ Returned("get_season_label")
    /\ reference_date = Some(timedelta(YearShiftDays + 273))
    /\ month(reference_date[1]) = 9
    /\ month(reference_date[1] + timedelta(1)) = 10
    /\ result = Some("Monsoon")

(***************************************************************************)
(* Vocabulary of the orchestrator's results.                               *)
(***************************************************************************)
MetricsCall == Returned("calculate_metrics")

RiskCall == Returned("calculate_risk_index")

(***************************************************************************)
(* C14: the Metrics that calculate_metrics returns for a series and a      *)
(* reference date carries, as seasonal_deviation and seasonal_baseline,    *)
(* the deviation and the baseline that the SeasonalEngine computes for     *)
(* that series and date (with the configured number of years and the       *)
(* default window), whenever the SeasonalEngine returns a result.          *)
(***************************************************************************)
C14_CarriesSeasonalResult ==
    (MetricsCall /\ result # None /\ readings # <<>>) =>
        LET seasonal == calculate_seasonal_deviation(
                            readings, window_days, years,
                            Some(result[1].calculation_date))
        IN  seasonal # None =>
              /\ result[1].seasonal_deviation = Some(seasonal[1].deviation)
              /\ result[1].seasonal_baseline =
                   Some(seasonal[1].historical_baseline)

(***************************************************************************)
(* C15: the outcome of calculate_metrics is a function of the series, the  *)
(* reference date and the configuration: whatever the wall clock reads,    *)
(* the same call returns the same Metrics, and its calculation_date is     *)
(* never the reading of the wall clock.                                    *)
(***************************************************************************)
C15_Deterministic ==
    MetricsCall =>
      /\ \A now \in WallClock :
           LET again == calculate_metrics(readings, reference_date,
                                          window_days, now)
           IN  again.raised = raised /\ again.value = result
      /\ result # None => result[1].calculation_date \notin WallClock

(***************************************************************************)
(* The composite score as the design states it: caps of 2 m on the trend   *)
(* magnitude and of 1 m on the seasonal deviation, components on a scale   *)
(* of 0 to 100, weighted by the configured weights.                        *)
(***************************************************************************)
cap_trend == Rat(2, 1)
cap_seasonal == Rat(1, 1)
Hundred == RatOfInt(100)

RatAdd(a, b) == Rat(a.num * b.den + b.num * a.den, a.den * b.den)
RatDiv(a, b) == Rat(a.num * b.den, a.den * b.num)
RatLeq(a, b) == ~RatLess(b, a)
RatMin(a, b) == IF RatLess(a, b) THEN a ELSE b
clamp(x, lo, hi) == IF RatLess(x, lo) THEN lo ELSE RatMin(x, hi)

(* min(|x| / cap, 1) * 100 *)
Component(x, cap) ==
    RatMul(RatMin(RatDiv(RatAbs(x), cap), RatOfInt(1)), Hundred)

trend_component(status, magnitude_m) ==
    IF status = DEPLETING THEN Component(magnitude_m, cap_trend) ELSE Zero

seasonal_component(deviation_m) ==
    IF RatLess(deviation_m, Zero) THEN Component(deviation_m, cap_seasonal)
    ELSE Zero

TrendAvailable == args[1].trend_indicator # INSUFFICIENT_DATA

SeasonalAvailable == args[1].seasonal_deviation # None

(***************************************************************************)
(* C16: when the risk scorer is given both a trend and a seasonal          *)
(* deviation, its risk_index is clamp(w_trend * trend_component +          *)
(* w_seasonal * seasonal_component, 0, 100), the trend component being 0   *)
(* for Recharging and Stable and min(|magnitude| / cap_trend, 1) * 100 for *)
(* Depleting, the seasonal component 0 for a deviation >= 0 and            *)
(* min(|deviation| / cap_seasonal, 1) * 100 for a deviation < 0.           *)
(***************************************************************************)
C16_WeightedScore ==
    (RiskCall /\ TrendAvailable /\ SeasonalAvailable) =>
        result[1][1] =
          Some(clamp(RatAdd(RatMul(risk_trend_weight,
                                   trend_component(
                                       args[1].trend_indicator,
                                       args[1].trend_magnitude[1])),
                            RatMul(risk_seasonal_weight,
                                   seasonal_component(
                                       args[1].seasonal_deviation[1]))),
                     Zero, Hundred))

(***************************************************************************)
(* C17: when the risk scorer is given exactly one of a trend and a         *)
(* seasonal deviation, risk_index and risk_level are present and the       *)
(* index is the component of the input that is there, at full weight; so   *)
(* in particular for Insufficient Data with a seasonal deviation.          *)
(***************************************************************************)
C17_SingleComponentFullWeight ==
    (RiskCall /\ TrendAvailable # SeasonalAvailable) =>
        /\ result[1][1] # None
        /\ result[1][2] # None
        /\ result[1][1][1] =
             IF TrendAvailable
             THEN trend_component(args[1].trend_indicator,
                                  args[1].trend_magnitude[1])
             ELSE seasonal_component(args[1].seasonal_deviation[1])

(***************************************************************************)
(* C18: when neither a trend nor a seasonal deviation is available, the    *)
(* risk scorer returns no risk_index and no risk_level, and the Metrics    *)
(* of calculate_metrics with Insufficient Data and no seasonal deviation   *)
(* has neither; the empty series among them.                               *)
(***************************************************************************)
C18_AbsentWithoutInputs ==
    /\ (RiskCall /\ ~TrendAvailable /\ ~SeasonalAvailable) =>
         result = Some(<<None, None>>)
    /\ (MetricsCall /\ result # None
          /\ result[1].trend_indicator = INSUFFICIENT_DATA
          /\ result[1].seasonal_deviation = None) =>
         (result[1].risk_index = None /\ result[1].risk_level = None)

(* calculate_metrics on a single reading: Insufficient Data, no seasonal   *)
(* deviation, and neither index nor level although the scorer was run      *)
C18_Witness ==
    /\ MetricsCall
    /\ Len(readings) = 1
    /\ result # None
    /\ result[1].trend_indicator = INSUFFICIENT_DATA
    /\ result[1].seasonal_deviation = None
    /\ result[1].risk_index = None
    /\ result[1].risk_level = None

(***************************************************************************)
(* C20: for a fixed seasonal input, the risk scorer returns a risk_index   *)
(* for every Depleting trend, and the index of a trend of smaller or equal *)
(* magnitude is smaller or equal.                                          *)
(***************************************************************************)
C20_MonotoneInMagnitude ==
    (RiskCall /\ args[1].trend_indicator = DEPLETING) =>
        /\ result[1][1] # None
        /\ \A m1 \in Magnitudes(DEPLETING) :
             RatLeq(RatAbs(m1[1]), RatAbs(args[1].trend_magnitude[1])) =>
               LET r1 == calculate_risk_index(DEPLETING, m1,
                                              args[1].seasonal_deviation)[1]
               IN  r1 # None /\ RatLeq(r1[1], result[1][1][1])

(***************************************************************************)
(* A configuration is invalid when a window or the number of years is      *)
(* negative, a weight lies outside [0, 1] or the weights do not sum to 1.  *)
(***************************************************************************)
ValidConfig(config) ==
    /\ config.trend_window_days >= 0
    /\ config.seasonal_comparison_years >= 0
    /\ ~RatLess(config.risk_trend_weight, Zero)
    /\ ~RatLess(config.risk_seasonal_weight, Zero)
    /\ RatAdd(config.risk_trend_weight, config.risk_seasonal_weight)
         = RatOfInt(1)

(***************************************************************************)
(* C21: constructing the engine with an invalid configuration fails at     *)
(* construction (it raises and leaves no engine), and no calculate_metrics *)
(* call ever returns under an invalid configuration.                       *)
(***************************************************************************)
C21_InvalidConfigurationFailsFast ==
    /\ (Returned("__init__") /\ ~ValidConfig(args[1].config)) =>
         (raised /\ engine = None)
    /\ (MetricsCall /\ engine # None) => ValidConfig(engine[1])

EngineCall == TrendCall \/ SeasonalCall

LatestOf(table, station_id) ==
    CHOOSE row \in table :
      /\ row.station_id = station_id
      /\ \A other \in table :
           other.station_id = station_id =>
             other.calculation_date <= row.calculation_date

(***************************************************************************)
(* C23: get_latest_metrics(station_id) returns the saved metrics of the    *)
(* station with the greatest calculation_date, and None only when no       *)
(* metrics are saved for the station.                                      *)
(***************************************************************************)
C23_LatestMetricsReturned ==
    Returned("get_latest_metrics") =>
        IF \E row \in db.metrics : row.station_id = args[1].station_id
        THEN result = Some(LatestOf(db.metrics, args[1].station_id))
        ELSE result = None

(* the readings of the save_readings calls that did not raise, in the      *)
(* order they were handed over                                             *)
RECURSIVE Committed(_, _)
Committed(h, n) ==
    IF n = 0 THEN <<>>
    ELSE IF h[n].raised THEN Committed(h, n - 1)
    ELSE Committed(h, n - 1) \o h[n].readings

SameKey(a, b) == a.station_id = b.station_id /\ a.timestamp = b.timestamp

(* the readings of flat that were the first with a depth for their key *)
FirstSaved(flat) ==
    {flat[i] : i \in {k \in 1..Len(flat) :
                        /\ flat[k].water_level_m # None
                        /\ \A j \in 1..(k - 1) :
                             ~(/\ SameKey(flat[j], flat[k])
                               /\ flat[j].water_level_m # None)}}

(***************************************************************************)
(* C24: after any sequence of save_readings calls the store holds at most  *)
(* one reading per (station_id, timestamp), namely the first one saved     *)
(* with that key (later ones are ignored); get_readings returns each       *)
(* stored reading of the station once; and a save_readings call that       *)
(* repeats a batch saved before leaves the stored readings as they were.   *)
(***************************************************************************)
C24_FirstSaveWins ==
    /\ \A a, b \in db.readings : SameKey(a, b) => a = b
    /\ db.readings = FirstSaved(Committed(history, Len(history)))
    /\ Returned("get_readings") =>
         /\ \A i, j \in 1..Len(result[1]) :
              i < j => result[1][i].timestamp < result[1][j].timestamp
         /\ {result[1][i] : i \in 1..Len(result[1])}
              = {row \in db.readings : row.station_id = args[1].station_id}
    /\ (Returned("save_readings") /\ ~raised
          /\ \E k \in 1..(Len(history) - 1) :
               ~history[k].raised /\ history[k].readings = args[1].readings)
         => db.readings = history[Len(history)].before

(* a second save_readings call has handed over a reading whose key was     *)
(* stored by the first call with another depth; the store kept the first   *)
C24_Witness ==
    /\ Returned("save_readings")
    /\ ~raised
    /\ Len(history) = 2
    /\ ~history[1].raised
    /\ \E r \in history[2].before :
         /\ \E i \in 1..Len(args[1].readings) :
              /\ SameKey(args[1].readings[i], r)
              /\ args[1].readings[i].water_level_m # None
              /\ args[1].readings[i].water_level_m # r.water_level_m
         /\ r \in db.readings

(* reading i of the batch has a key that neither the store held before the *)
(* call nor an earlier reading of the batch carries                        *)
NonDuplicate(batch, before, i) ==
    /\ \A row \in before : ~SameKey(row, batch[i])
    /\ \A j \in 1..(i - 1) : ~SameKey(batch[j], batch[i])

(* a save_readings call that raised left the stored readings as they were *)
RolledBackWhenRaised ==
    (Returned("save_readings") /\ raised) =>
        db.readings = history[Len(history)].before

(***************************************************************************)
(* C25: a save_readings call that raised has stored none of its batch      *)
(* (the stored readings are as before the call); one that did not raise    *)
(* has stored every reading of the batch that is not a duplicate.          *)
(***************************************************************************)
C25_BatchAtomic ==
    /\ RolledBackWhenRaised
    /\ (Returned("save_readings") /\ ~raised) =>
         \A i \in 1..Len(args[1].readings) :
           NonDuplicate(args[1].readings, history[Len(history)].before, i)
             => args[1].readings[i] \in db.readings

(***************************************************************************)
(* C26: in every Metrics that calculate_metrics returns, trend_metrics is  *)
(* absent exactly when trend_indicator is INSUFFICIENT_DATA and exactly    *)
(* when trend_magnitude is absent; a present trend_metrics agrees with     *)
(* trend_indicator (status), trend_magnitude (magnitude) and               *)
(* trend_period_days (window_days); data_points_used is the number of      *)
(* readings passed, so the trend's data_points_used is at most that.       *)
(***************************************************************************)
C26_TrendFieldsConsistent ==
    (MetricsCall /\ result # None) =>
        LET m == result[1]
        IN  /\ (m.trend_metrics = None)
                 <=> (m.trend_indicator = INSUFFICIENT_DATA)
            /\ (m.trend_metrics = None) <=> (m.trend_magnitude = None)
            /\ m.data_points_used = Some(Len(args[1].readings))
            /\ m.trend_metrics # None =>
                 /\ m.trend_indicator = m.trend_metrics[1].status
                 /\ m.trend_magnitude = Some(m.trend_metrics[1].magnitude)
                 /\ m.trend_period_days = Some(m.trend_metrics[1].window_days)
                 /\ m.trend_metrics[1].data_points_used
                      <= m.data_points_used[1]

(* a depleting trend fitted to 2 of the 5 readings passed *)
C26_Witness ==
    /\ MetricsCall
    /\ result # None
    /\ result[1].trend_metrics # None
    /\ result[1].trend_indicator = DEPLETING
    /\ result[1].trend_metrics[1].data_points_used = 2
    /\ result[1].data_points_used = Some(5)

(***************************************************************************)
(* C27: for a non-empty series, calculate_metrics yields the same          *)
(* trend_indicator, trend_magnitude and trend_metrics (or raises alike)    *)
(* for every calculation_date, one earlier than the latest reading         *)
(* included, and for none.                                                 *)
(***************************************************************************)
C27_TrendIgnoresCalculationDate ==
    (MetricsCall /\ args[1].readings # <<>>) =>
        \A d \in CalculationDates, now \in WallClock :
            LET again == calculate_metrics(args[1].readings, d, window_days,
                                           now)
            IN  /\ again.raised = raised
                /\ ~raised =>
                     /\ again.value[1].trend_indicator
                          = result[1].trend_indicator
                     /\ again.value[1].trend_magnitude
                          = result[1].trend_magnitude
                     /\ again.value[1].trend_metrics
                          = result[1].trend_metrics

(* calculation_date is the epoch, both readings are later, and a depleting *)
(* trend is fitted to them                                                 *)
C27_Witness ==
    /\ MetricsCall
    /\ reference_date = Some(0)
    /\ Len(args[1].readings) = 2
    /\ \A i \in 1..2 : args[1].readings[i].timestamp > 0
    /\ result # None
    /\ result[1].calculation_date = 0
    /\ result[1].trend_indicator = DEPLETING

====
